---- MODULE Spec2Model ----
(***************************************************************************)
(* TCP latency measurement tool (src/tcp_latency_measurement.py).          *)
(*                                                                         *)
(* One process runs either run_server or run_client (main, line 285).      *)
(* The server part models TCPServer.start's accept loop, one               *)
(* handle_client thread per accepted connection, and the shared stats      *)
(* dictionary that update_stats / get_stats read and write with no lock:   *)
(* every read and every write of a field of self.stats is a step of its    *)
(* own, so that the threads interleave the way the interpreter lets them.  *)
(* The client part models run_client / TCPClient.send_ping.  The remote    *)
(* peer of every connection is the environment.                            *)
(***************************************************************************)
EXTENDS Integers, Sequences, FiniteSets, TLC

\* ------------------------------------------------------------- bounds
MaxConns == 2
MaxReqs == 2
MaxAcceptErrors == 1
MaxCount == 3
MaxClock == 2

\* ------------------------------------------------ program constants
Inf == 1000000
MsPerSecond == 1000

Conns == 1..MaxConns
Clock == 1..MaxClock

VARIABLES
  mode,               \* "server" | "client"  (args.mode)
  \* TCPServer
  running,            \* self.running
  server_socket,      \* self.server_socket: "none" | "open" | "closed"
  srv_pc,             \* where the thread that called start() is
  startReturn,        \* what start() gave its caller
  bindFailed,         \* socket()/bind()/listen() raised
  startFailedLogged,  \* line 69 printed
  nAcceptErr,         \* accept() calls that raised socket.error
  nAcceptLogged,      \* line 66 printed
  nAccepted,          \* connections accepted
  stop_pc,            \* a stop() called from another thread: "idle" | "closing" | "done"
  stats,              \* self.stats
  \* handle_client threads, one per accepted connection
  hpc, data, latency, tmp, snap, closeCause, nReads, answerable, resps,
  gsDirty,            \* per handler: self.stats was written since its get_stats copied it
  recordCalls,        \* update_stats calls made
  pongsWritten,       \* pong responses sent
  pongWriteFails,     \* pong sends that raised
  pingsRead,          \* received requests whose type is (or defaults to) 'ping'
  \* TCPClient / run_client
  cl_pc,              \* where run_client is
  client_socket,      \* self.client_socket: "none" | "unconnected" | "open" | "closed"
  cl_latencies,       \* self.latencies
  cl_i,               \* the loop variable i of run_client
  cl_count,           \* the count argument
  cl_sleeps,          \* time.sleep(interval) calls made
  cl_answered,        \* rounds whose response arrived and decoded
  cl_last,            \* what the last send_ping returned
  cl_sent,            \* ping requests handed to send()
  cl_pings,           \* send_ping calls made by run_client
  cl_report,          \* what line 259 got from get_stats
  cl_interrupted      \* KeyboardInterrupt reached run_client's handler

srvVars == <<running, server_socket, srv_pc, startReturn, bindFailed,
             startFailedLogged, nAcceptErr, nAcceptLogged, nAccepted, stop_pc>>
hVars == <<hpc, data, latency, tmp, snap, closeCause, nReads, answerable, resps,
           gsDirty>>
ghostVars == <<recordCalls, pongsWritten, pongWriteFails, pingsRead>>
clVars == <<cl_pc, client_socket, cl_latencies, cl_i, cl_count, cl_sleeps,
            cl_answered, cl_last, cl_sent, cl_pings, cl_report,
            cl_interrupted>>
vars == <<mode, srvVars, stats, hVars, ghostVars, clVars>>

\* ------------------------------------------------------------ helpers
RECURSIVE SumSeq(_)
SumSeq(s) == IF s = <<>> THEN 0 ELSE Head(s) + SumSeq(Tail(s))

RECURSIVE SumSq(_)
SumSq(s) == IF s = <<>> THEN 0 ELSE Head(s) * Head(s) + SumSq(Tail(s))

\* the k-th smallest element of s (sorted(s)[k-1])
KthSmallest(s, k) ==
  CHOOSE v \in {s[i] : i \in 1..Len(s)} :
    /\ Cardinality({i \in 1..Len(s) : s[i] < v}) < k
    /\ k <= Cardinality({i \in 1..Len(s) : s[i] <= v})

\* Rationals are pairs <<numerator, denominator>>, denominator > 0.
FracEq(a, b) == a[1] * b[2] = b[1] * a[2]
Zero == <<0, 1>>

\* statistics.mean
Mean(s) == <<SumSeq(s), Len(s)>>

\* statistics.median
Median(s) ==
  LET n == Len(s) IN
  IF n % 2 = 1 THEN <<KthSmallest(s, (n \div 2) + 1), 1>>
  ELSE <<KthSmallest(s, n \div 2) + KthSmallest(s, (n \div 2) + 1), 2>>

\* statistics.stdev, given by its square (the sample variance)
StdevSquared(s) ==
  LET n == Len(s) IN <<n * SumSq(s) - SumSeq(s) * SumSeq(s), n * (n - 1)>>

\* ------------------------------------------------------ request bytes
\* What recv returned, by what lines 84-91 look at.
Payload(u, j, o, ty, tk, t) ==
  [utf8 |-> u, json |-> j, isobj |-> o, type |-> ty, tsKind |-> tk, ts |-> t]

NoData == Payload(TRUE, TRUE, TRUE, "none", "none", 0)

Payloads ==
  {Payload(TRUE, TRUE, TRUE, "ping", "num", t) : t \in Clock}
  \cup {Payload(TRUE, TRUE, TRUE, "absent", "num", 1),
        Payload(TRUE, TRUE, TRUE, "ping", "absent", 0),
        Payload(TRUE, TRUE, TRUE, "ping", "str", 0),
        Payload(TRUE, TRUE, TRUE, "stats", "num", 1),
        Payload(TRUE, TRUE, TRUE, "other", "num", 1),
        Payload(TRUE, TRUE, FALSE, "absent", "absent", 0),
        Payload(TRUE, FALSE, FALSE, "absent", "absent", 0),
        Payload(FALSE, FALSE, FALSE, "absent", "absent", 0)}

\* a decode that reads request['type']: the KeyError of a request with no
\* type is caught at line 118 like an AttributeError
DecodeRequest_requires_type(p) ==
  IF ~p.utf8 THEN "UnicodeDecodeError"
  ELSE IF ~p.json THEN "JSONDecodeError"
  ELSE IF ~p.isobj THEN "AttributeError"
  ELSE IF p.type = "absent" THEN "AttributeError"
  ELSE p.type

\* lines 84-85: data.decode('utf-8'), json.loads, request.get('type', 'ping')
DecodeRequest(p) ==
  IF ~p.utf8 THEN "UnicodeDecodeError"
  ELSE IF ~p.json THEN "JSONDecodeError"
  ELSE IF ~p.isobj THEN "AttributeError"
  ELSE IF p.type = "absent" THEN "ping"
  ELSE p.type

\* line 115: the only exception the inner try catches
CaughtAsInvalidJson(kind) == kind = "JSONDecodeError"

InitStats ==
  [total_requests |-> 0, total_latency |-> 0, min_latency |-> Inf,
   max_latency |-> 0, latencies |-> <<>>]

NoSnap ==
  [total_requests |-> 0, total_latency |-> 0, min_latency |-> 0,
   max_latency |-> 0, avg_latency |-> Zero, median_latency |-> Zero,
   std_squared |-> Zero]

\* Python's None, as TCPClient.get_stats returns it at line 208
None == [none |-> TRUE]

\* run_client's local `stats` before line 257 assigns it
Unset == [unset |-> TRUE]

\* ---------------------------------------------------------------- Init
Init ==
  /\ mode \in {"server", "client"}
  /\ running = FALSE
  /\ server_socket = "none"
  /\ srv_pc = "start"
  /\ startReturn = "pending"
  /\ bindFailed = FALSE
  /\ startFailedLogged = FALSE
  /\ nAcceptErr = 0
  /\ nAcceptLogged = 0
  /\ nAccepted = 0
  /\ stop_pc = "idle"
  /\ stats = InitStats
  /\ hpc = [h \in Conns |-> "unborn"]
  /\ data = [h \in Conns |-> NoData]
  /\ latency = [h \in Conns |-> 0]
  /\ tmp = [h \in Conns |-> 0]
  /\ snap = [h \in Conns |-> NoSnap]
  /\ closeCause = [h \in Conns |-> "none"]
  /\ nReads = [h \in Conns |-> 0]
  /\ answerable = [h \in Conns |-> <<>>]
  /\ resps = [h \in Conns |-> <<>>]
  /\ gsDirty = [h \in Conns |-> FALSE]
  /\ recordCalls = 0
  /\ pongsWritten = 0
  /\ pongWriteFails = 0
  /\ pingsRead = 0
  /\ cl_pc = "connect"
  /\ client_socket = "none"
  /\ cl_latencies = <<>>
  /\ cl_i = 0
  /\ cl_count \in (IF mode = "client" THEN 0..MaxCount ELSE {0})
  /\ cl_sleeps = 0
  /\ cl_answered = 0
  /\ cl_last = "none"
  /\ cl_sent = 0
  /\ cl_pings = 0
  /\ cl_report = Unset
  /\ cl_interrupted = FALSE

\* ------------------------------------------------------- TCPServer.stop
\* lines 150-152, as run by the thread that runs start()
stop ==
  /\ running' = FALSE
  /\ server_socket' = IF server_socket = "none" THEN "none" ELSE "closed"

\* ------------------------------------------------------ TCPServer.start
\* a start() that would serve although binding failed
start_bind_failed_enters_loop(sock) ==
  /\ server_socket' = sock
  /\ bindFailed' = TRUE
  /\ startFailedLogged' = TRUE
  /\ srv_pc' = "while"
  /\ running' = TRUE

\* lines 68-69 after socket()/bind()/listen() raised; sock is what
\* self.server_socket holds by then
start_bind_failed(sock) ==
  /\ server_socket' = sock
  /\ bindFailed' = TRUE
  /\ startFailedLogged' = TRUE
  /\ srv_pc' = "finally"
  /\ UNCHANGED running

\* lines 40-49
start_bind ==
  /\ mode = "server"
  /\ srv_pc = "start"
  /\ \/ /\ server_socket' = "open"
        /\ running' = TRUE
        /\ srv_pc' = "while"
        /\ UNCHANGED <<bindFailed, startFailedLogged>>
     \/ \E sock \in {"none", "open"} : start_bind_failed(sock)
  /\ UNCHANGED <<startReturn, nAcceptErr, nAcceptLogged, nAccepted, stop_pc>>
  /\ UNCHANGED <<mode, stats, hVars, ghostVars, clVars>>

\* line 51
start_while ==
  /\ mode = "server"
  /\ srv_pc = "while"
  /\ srv_pc' = IF running THEN "accept" ELSE "finally"
  /\ UNCHANGED <<running, server_socket, startReturn, bindFailed,
                 startFailedLogged, nAcceptErr, nAcceptLogged, nAccepted, stop_pc>>
  /\ UNCHANGED <<mode, stats, hVars, ghostVars, clVars>>

\* lines 53-62: accept returns a connection and its thread is started
start_accept ==
  /\ mode = "server"
  /\ srv_pc = "accept"
  /\ server_socket = "open"
  /\ nAccepted < MaxConns
  /\ nAccepted' = nAccepted + 1
  /\ hpc' = [hpc EXCEPT ![nAccepted + 1] = "while"]
  /\ srv_pc' = "while"
  /\ UNCHANGED <<running, server_socket, startReturn, bindFailed,
                 startFailedLogged, nAcceptErr, nAcceptLogged, stop_pc>>
  /\ UNCHANGED <<data, latency, tmp, snap, closeCause, nReads, answerable, resps,
                 gsDirty>>
  /\ UNCHANGED <<mode, stats, ghostVars, clVars>>

\* lines 53, 64: accept raises socket.error (always, once the socket is closed)
start_accept_raises ==
  /\ mode = "server"
  /\ srv_pc = "accept"
  /\ server_socket = "closed" \/ nAcceptErr < MaxAcceptErrors
  /\ nAcceptErr' = nAcceptErr + 1
  /\ srv_pc' = "except_accept"
  /\ UNCHANGED <<running, server_socket, startReturn, bindFailed,
                 startFailedLogged, nAcceptLogged, nAccepted, stop_pc>>
  /\ UNCHANGED <<mode, stats, hVars, ghostVars, clVars>>

\* an accept loop that any accept error ends
start_except_accept_fatal ==
  /\ mode = "server"
  /\ srv_pc = "except_accept"
  /\ nAcceptLogged' = IF running THEN nAcceptLogged + 1 ELSE nAcceptLogged
  /\ srv_pc' = "finally"
  /\ UNCHANGED <<running, server_socket, startReturn, bindFailed,
                 startFailedLogged, nAcceptErr, nAccepted, stop_pc>>
  /\ UNCHANGED <<mode, stats, hVars, ghostVars, clVars>>

\* lines 64-66
start_except_accept ==
  /\ mode = "server"
  /\ srv_pc = "except_accept"
  /\ nAcceptLogged' = IF running THEN nAcceptLogged + 1 ELSE nAcceptLogged
  /\ srv_pc' = "while"
  /\ UNCHANGED <<running, server_socket, startReturn, bindFailed,
                 startFailedLogged, nAcceptErr, nAccepted, stop_pc>>
  /\ UNCHANGED <<mode, stats, hVars, ghostVars, clVars>>

\* KeyboardInterrupt raised in the thread that runs the accept loop
start_interrupted ==
  /\ mode = "server"
  /\ srv_pc \in {"while", "accept", "except_accept"}
  /\ startReturn' = "KeyboardInterrupt"
  /\ srv_pc' = "finally"
  /\ UNCHANGED <<running, server_socket, bindFailed, startFailedLogged,
                 nAcceptErr, nAcceptLogged, nAccepted, stop_pc>>
  /\ UNCHANGED <<mode, stats, hVars, ghostVars, clVars>>

\* lines 70-71, then start returns None or lets the KeyboardInterrupt through
start_finally ==
  /\ mode = "server"
  /\ srv_pc = "finally"
  /\ stop
  /\ IF startReturn = "KeyboardInterrupt"
       THEN srv_pc' = "run_server_except" /\ UNCHANGED startReturn
       ELSE srv_pc' = "done" /\ startReturn' = "None"
  /\ UNCHANGED <<bindFailed, startFailedLogged, nAcceptErr, nAcceptLogged,
                 nAccepted, stop_pc>>
  /\ UNCHANGED <<mode, stats, hVars, ghostVars, clVars>>

\* run_server, lines 230-232
run_server_except ==
  /\ mode = "server"
  /\ srv_pc = "run_server_except"
  /\ stop
  /\ srv_pc' = "done"
  /\ UNCHANGED <<startReturn, bindFailed, startFailedLogged, nAcceptErr,
                 nAcceptLogged, nAccepted, stop_pc>>
  /\ UNCHANGED <<mode, stats, hVars, ghostVars, clVars>>

\* stop() called by another thread while start() serves: line 150 ...
stop_flag ==
  /\ mode = "server"
  /\ stop_pc = "idle"
  /\ srv_pc \in {"while", "accept", "except_accept"}
  /\ running' = FALSE
  /\ stop_pc' = "closing"
  /\ UNCHANGED <<server_socket, srv_pc, startReturn, bindFailed,
                 startFailedLogged, nAcceptErr, nAcceptLogged, nAccepted>>
  /\ UNCHANGED <<mode, stats, hVars, ghostVars, clVars>>

\* ... and lines 151-152
stop_close ==
  /\ mode = "server"
  /\ stop_pc = "closing"
  /\ server_socket' = IF server_socket = "none" THEN "none" ELSE "closed"
  /\ stop_pc' = "done"
  /\ UNCHANGED <<running, srv_pc, startReturn, bindFailed,
                 startFailedLogged, nAcceptErr, nAcceptLogged, nAccepted>>
  /\ UNCHANGED <<mode, stats, hVars, ghostVars, clVars>>

\* ------------------------------------------------ TCPServer.handle_client
HSet(f, h, v) == [f EXCEPT ![h] = v]

\* the locals of one loop iteration are dead once it ends
EndExchange(h) ==
  /\ latency' = HSet(latency, h, 0)
  /\ tmp' = HSet(tmp, h, 0)
  /\ snap' = HSet(snap, h, NoSnap)
  /\ gsDirty' = HSet(gsDirty, h, FALSE)

\* a handler whose failure closes every accepted connection
handle_client_finally_closes_all(h, cause) ==
  /\ hpc' = [g \in Conns |-> IF hpc[g] = "unborn" THEN "unborn" ELSE "closed"]
  /\ closeCause' = [g \in Conns |->
                      IF hpc[g] \in {"unborn", "closed"} THEN closeCause[g] ELSE cause]
  /\ EndExchange(h)

\* a handler that closes its socket on a failure and goes on with its loop
handle_client_finally_continues(h, cause) ==
  /\ hpc' = HSet(hpc, h, "while")
  /\ closeCause' = HSet(closeCause, h, cause)
  /\ EndExchange(h)

\* lines 80 / 118-122: break or exception, then finally: client_socket.close()
handle_client_finally(h, cause) ==
  /\ hpc' = HSet(hpc, h, "closed")
  /\ closeCause' = HSet(closeCause, h, cause)
  /\ EndExchange(h)

\* a handler loop that never looks at self.running
handle_client_while_ignores_running(h) ==
  /\ mode = "server"
  /\ hpc[h] = "while"
  /\ hpc' = HSet(hpc, h, "recv")
  /\ UNCHANGED <<closeCause, latency, tmp, snap, gsDirty>>
  /\ data' = HSet(data, h, NoData)
  /\ UNCHANGED <<nReads, answerable, resps>>
  /\ UNCHANGED <<mode, srvVars, stats, ghostVars, clVars>>

\* line 76
handle_client_while(h) ==
  /\ mode = "server"
  /\ hpc[h] = "while"
  /\ IF running
       THEN /\ hpc' = HSet(hpc, h, "recv")
            /\ UNCHANGED <<closeCause, latency, tmp, snap, gsDirty>>
       ELSE handle_client_finally(h, "stopped")
  /\ data' = HSet(data, h, NoData)
  /\ UNCHANGED <<nReads, answerable, resps>>
  /\ UNCHANGED <<mode, srvVars, stats, ghostVars, clVars>>

\* requests received so far on all connections
TotalReads == SumSeq(nReads)

\* lines 78-80: recv returns bytes, returns b'' (the peer closed) or raises
handle_client_recv(h) ==
  /\ mode = "server"
  /\ hpc[h] = "recv"
  /\ \/ /\ \E cause \in {"peer", "error"} : handle_client_finally(h, cause)
        /\ UNCHANGED <<data, nReads, pingsRead>>
     \/ /\ TotalReads < MaxReqs
        /\ \E p \in Payloads :
             /\ data' = HSet(data, h, p)
             /\ pingsRead' = IF p.utf8 /\ p.json /\ p.isobj /\ p.type \in {"ping", "absent"}
                                THEN pingsRead + 1 ELSE pingsRead
        /\ nReads' = HSet(nReads, h, nReads[h] + 1)
        /\ hpc' = HSet(hpc, h, "decode")
        /\ UNCHANGED <<closeCause, latency, tmp, snap, gsDirty>>
  /\ UNCHANGED <<answerable, resps, recordCalls, pongsWritten, pongWriteFails>>
  /\ UNCHANGED <<mode, srvVars, stats, clVars>>

\* a dispatch that records a sample for a stats request as well
is_ping_or_stats(kind) == kind \in {"ping", "stats"}

\* a dispatch that compares the type with 'Ping'
is_ping_wrong_case(kind) == kind = "Ping"

\* line 88
is_ping(kind) == kind = "ping"

\* lines 84-94 and 107-116 on the bytes p: t0 is time.time() at line 86,
\* now is time.time() at line 90
handle_request(h, p, t0, now) ==
  LET kind == DecodeRequest(p)
      timestamp == IF p.tsKind = "absent" THEN t0 ELSE p.ts
  IN
  /\ UNCHANGED <<tmp, snap, gsDirty>>
  /\ IF CaughtAsInvalidJson(kind)
       THEN /\ hpc' = HSet(hpc, h, "while")
            /\ UNCHANGED <<closeCause, latency, answerable, recordCalls>>
     ELSE IF kind \in {"UnicodeDecodeError", "AttributeError"}
               \/ (kind = "ping" /\ p.tsKind = "str")
       THEN /\ hpc' = HSet(hpc, h, "closed")
            /\ closeCause' = HSet(closeCause, h, "error")
            /\ UNCHANGED <<latency, answerable, recordCalls>>
     ELSE IF is_ping(kind)
       THEN /\ latency' = HSet(latency, h, (now - timestamp) * MsPerSecond)
            /\ hpc' = HSet(hpc, h, "us_requests_read")
            /\ recordCalls' = recordCalls + 1
            /\ answerable' = HSet(answerable, h, Append(answerable[h], nReads[h]))
            /\ UNCHANGED closeCause
     ELSE IF kind = "stats"
       THEN /\ hpc' = HSet(hpc, h, "gs_copy")
            /\ answerable' = HSet(answerable, h, Append(answerable[h], nReads[h]))
            /\ UNCHANGED <<closeCause, latency, recordCalls>>
     ELSE /\ hpc' = HSet(hpc, h, "while")
          /\ UNCHANGED <<closeCause, latency, answerable, recordCalls>>

\* lines 83-116 up to the call of update_stats / get_stats
\* (data[h] is kept for the step that follows the dispatch and is dead after it)
handle_client_decode(h) ==
  /\ mode = "server"
  /\ hpc[h] = "decode"
  /\ \E t0 \in Clock, now \in Clock :
       t0 <= now /\ handle_request(h, data[h], t0, now)
  /\ data' = IF hpc'[h] = "closed" THEN HSet(data, h, NoData) ELSE data
  /\ UNCHANGED <<nReads, resps, pongsWritten, pongWriteFails, pingsRead>>
  /\ UNCHANGED <<mode, srvVars, stats, clVars>>

\* where a get_stats call is after its copy of line 137 and before its
\* response is sent
GsAfterCopy == {"gs_mean", "gs_median", "gs_std", "send_stats"}

\* ------------------------------------------------ TCPServer.update_stats
\* One step per read and per write of self.stats (lines 126-133).
update_stats(h) ==
  /\ mode = "server"
  /\ \/ /\ hpc[h] = "us_requests_read"                      \* line 126, read
        /\ tmp' = HSet(tmp, h, stats.total_requests)
        /\ hpc' = HSet(hpc, h, "us_requests_write")
        /\ UNCHANGED stats
     \/ /\ hpc[h] = "us_requests_write"                     \* line 126, write
        /\ stats' = [stats EXCEPT !.total_requests = tmp[h] + 1]
        /\ hpc' = HSet(hpc, h, "us_total_read")
        /\ UNCHANGED tmp
     \/ /\ hpc[h] = "us_total_read"                         \* line 127, read
        /\ tmp' = HSet(tmp, h, stats.total_latency)
        /\ hpc' = HSet(hpc, h, "us_total_write")
        /\ UNCHANGED stats
     \/ /\ hpc[h] = "us_total_write"                        \* line 127, write
        /\ stats' = [stats EXCEPT !.total_latency = tmp[h] + latency[h]]
        /\ tmp' = HSet(tmp, h, 0)
        /\ hpc' = HSet(hpc, h, "us_append")
     \/ /\ hpc[h] = "us_append"                             \* line 128
        /\ stats' = [stats EXCEPT !.latencies = Append(@, latency[h])]
        /\ hpc' = HSet(hpc, h, "us_min_test")
        /\ UNCHANGED tmp
     \/ /\ hpc[h] = "us_min_test"                           \* line 130
        /\ hpc' = HSet(hpc, h, IF latency[h] < stats.min_latency
                                 THEN "us_min_write" ELSE "us_max_test")
        /\ UNCHANGED <<stats, tmp>>
     \/ /\ hpc[h] = "us_min_write"                          \* line 131
        /\ stats' = [stats EXCEPT !.min_latency = latency[h]]
        /\ hpc' = HSet(hpc, h, "us_max_test")
        /\ UNCHANGED tmp
     \/ /\ hpc[h] = "us_max_test"                           \* line 132
        /\ hpc' = HSet(hpc, h, IF latency[h] > stats.max_latency
                                 THEN "us_max_write" ELSE "send_pong")
        /\ UNCHANGED <<stats, tmp>>
     \/ /\ hpc[h] = "us_max_write"                          \* line 133
        /\ stats' = [stats EXCEPT !.max_latency = latency[h]]
        /\ hpc' = HSet(hpc, h, "send_pong")
        /\ UNCHANGED tmp
  /\ gsDirty' = IF stats' = stats THEN gsDirty
                ELSE [g \in Conns |-> gsDirty[g] \/ hpc[g] \in GsAfterCopy]
  /\ data' = HSet(data, h, NoData)
  /\ UNCHANGED <<latency, snap, closeCause, nReads, answerable, resps>>
  /\ UNCHANGED <<mode, srvVars, ghostVars, clVars>>

\* --------------------------------------------------- TCPServer.get_stats
\* a copy that counts the stats request itself as a request
stats_copy_counts_query(st) ==
  [NoSnap EXCEPT !.total_requests = st.total_requests + 1,
                 !.total_latency = st.total_latency,
                 !.min_latency = st.min_latency,
                 !.max_latency = st.max_latency]

\* line 137: dict.copy() copies the four numbers; the copy's 'latencies' is
\* the very list update_stats appends to
stats_copy(st) ==
  [NoSnap EXCEPT !.total_requests = st.total_requests,
                 !.total_latency = st.total_latency,
                 !.min_latency = st.min_latency,
                 !.max_latency = st.max_latency]

\* a get_stats that counts its own call in self.stats['total_requests']
get_stats_counts_itself(h) ==
  /\ mode = "server"
  /\ \/ /\ hpc[h] = "gs_copy"
        /\ snap' = HSet(snap, h, stats_copy(stats))
        /\ hpc' = HSet(hpc, h, "gs_mean")
        /\ stats' = [stats EXCEPT !.total_requests = @ + 1]
     \/ /\ hpc[h] = "gs_mean"
        /\ UNCHANGED stats
        /\ IF stats.latencies # <<>>
             THEN /\ snap' = HSet(snap, h, [snap[h] EXCEPT
                               !.avg_latency = Mean(stats.latencies)])
                  /\ hpc' = HSet(hpc, h, "gs_median")
             ELSE /\ snap' = HSet(snap, h, [snap[h] EXCEPT
                               !.avg_latency = Zero, !.median_latency = Zero,
                               !.std_squared = Zero])
                  /\ hpc' = HSet(hpc, h, "send_stats")
     \/ /\ hpc[h] = "gs_median"
        /\ snap' = HSet(snap, h, [snap[h] EXCEPT
                     !.median_latency = Median(stats.latencies)])
        /\ hpc' = HSet(hpc, h, "gs_std")
        /\ UNCHANGED stats
     \/ /\ hpc[h] = "gs_std"
        /\ UNCHANGED stats
        /\ snap' = HSet(snap, h, [snap[h] EXCEPT
                     !.std_squared = IF Len(stats.latencies) > 1
                                       THEN StdevSquared(stats.latencies)
                                       ELSE Zero])
        /\ hpc' = HSet(hpc, h, "send_stats")
  /\ data' = HSet(data, h, NoData)
  /\ UNCHANGED <<latency, tmp, closeCause, nReads, answerable, resps, gsDirty>>
  /\ UNCHANGED <<mode, srvVars, ghostVars, clVars>>

get_stats(h) ==
  /\ mode = "server"
  /\ \/ /\ hpc[h] = "gs_copy"                               \* line 137
        /\ snap' = HSet(snap, h, stats_copy(stats))
        /\ hpc' = HSet(hpc, h, "gs_mean")
     \/ /\ hpc[h] = "gs_mean"                               \* lines 138-139, 143-145
        /\ IF stats.latencies # <<>>
             THEN /\ snap' = HSet(snap, h, [snap[h] EXCEPT
                               !.avg_latency = Mean(stats.latencies)])
                  /\ hpc' = HSet(hpc, h, "gs_median")
             ELSE /\ snap' = HSet(snap, h, [snap[h] EXCEPT
                               !.avg_latency = Zero, !.median_latency = Zero,
                               !.std_squared = Zero])
                  /\ hpc' = HSet(hpc, h, "send_stats")
     \/ /\ hpc[h] = "gs_median"                             \* line 140
        /\ snap' = HSet(snap, h, [snap[h] EXCEPT
                     !.median_latency = Median(stats.latencies)])
        /\ hpc' = HSet(hpc, h, "gs_std")
     \/ /\ hpc[h] = "gs_std"                                \* line 141
        /\ snap' = HSet(snap, h, [snap[h] EXCEPT
                     !.std_squared = IF Len(stats.latencies) > 1
                                       THEN StdevSquared(stats.latencies)
                                       ELSE Zero])
        /\ hpc' = HSet(hpc, h, "send_stats")
  /\ data' = HSet(data, h, NoData)
  /\ UNCHANGED <<latency, tmp, closeCause, nReads, answerable, resps, gsDirty>>
  /\ UNCHANGED <<mode, srvVars, stats, ghostVars, clVars>>

\* a handler that writes its response twice
handle_client_send_twice(h) ==
  /\ mode = "server"
  /\ hpc[h] \in {"send_pong", "send_stats"}
  /\ resps' = HSet(resps, h, resps[h] \o <<nReads[h], nReads[h]>>)
  /\ hpc' = HSet(hpc, h, "while")
  /\ EndExchange(h)
  /\ pongsWritten' = IF hpc[h] = "send_pong" THEN pongsWritten + 1 ELSE pongsWritten
  /\ UNCHANGED <<closeCause, pongWriteFails>>
  /\ UNCHANGED <<data, nReads, answerable, recordCalls, pingsRead>>
  /\ UNCHANGED <<mode, srvVars, stats, clVars>>

\* lines 104 / 113: client_socket.send of the response to request nReads[h]
handle_client_send(h) ==
  /\ mode = "server"
  /\ hpc[h] \in {"send_pong", "send_stats"}
  /\ \/ /\ resps' = HSet(resps, h, Append(resps[h], nReads[h]))
        /\ hpc' = HSet(hpc, h, "while")
        /\ EndExchange(h)
        /\ pongsWritten' = IF hpc[h] = "send_pong" THEN pongsWritten + 1
                           ELSE pongsWritten
        /\ UNCHANGED <<closeCause, pongWriteFails>>
     \/ /\ handle_client_finally(h, "error")
        /\ pongWriteFails' = IF hpc[h] = "send_pong" THEN pongWriteFails + 1
                             ELSE pongWriteFails
        /\ UNCHANGED <<resps, pongsWritten>>
  /\ UNCHANGED <<data, nReads, answerable, recordCalls, pingsRead>>
  /\ UNCHANGED <<mode, srvVars, stats, clVars>>

ServerNext ==
  \/ start_bind
  \/ start_while
  \/ start_accept
  \/ start_accept_raises
  \/ start_except_accept
  \/ start_interrupted
  \/ start_finally
  \/ run_server_except
  \/ stop_flag
  \/ stop_close
  \/ \E h \in Conns : handle_client_while(h)
  \/ \E h \in Conns : handle_client_recv(h)
  \/ \E h \in Conns : handle_client_decode(h)
  \/ \E h \in Conns : update_stats(h)
  \/ \E h \in Conns : get_stats(h)
  \/ \E h \in Conns : handle_client_send(h)

\* ------------------------------------------------------------ TCPClient
\* what recv can hand to send_ping (line 192): nothing, bytes that do not
\* decode to an object, a pong, or an object with no 'latency' field
Latencies == {(a - b) * MsPerSecond : a, b \in Clock}

Responses ==
  {[kind |-> "empty", latency |-> 0], [kind |-> "garbage", latency |-> 0],
   [kind |-> "no_latency", latency |-> 0]}
  \cup {[kind |-> "pong", latency |-> l] : l \in Latencies}

\* lines 205-217
client_get_stats(l) ==
  IF l = <<>> THEN None
  ELSE [count |-> Len(l),
        min |-> KthSmallest(l, 1),
        max |-> KthSmallest(l, Len(l)),
        avg |-> Mean(l),
        median |-> Median(l),
        std_squared |-> IF Len(l) > 1 THEN StdevSquared(l) ELSE Zero]

\* connect whose result run_client does not test
connect_ignores_failure ==
  /\ mode = "client"
  /\ cl_pc = "connect"
  /\ client_socket' \in {"open", "none", "unconnected"}
  /\ cl_pc' = "for"
  /\ UNCHANGED <<cl_latencies, cl_i, cl_count, cl_pings, cl_sleeps, cl_answered,
                 cl_last, cl_sent, cl_report, cl_interrupted>>
  /\ UNCHANGED <<mode, srvVars, stats, hVars, ghostVars>>

\* lines 164-173, 238-239
connect ==
  /\ mode = "client"
  /\ cl_pc = "connect"
  /\ \/ client_socket' = "open" /\ cl_pc' = "for"
     \/ client_socket' \in {"none", "unconnected"} /\ cl_pc' = "done"
  /\ UNCHANGED <<cl_latencies, cl_i, cl_count, cl_pings, cl_sleeps, cl_answered, cl_last,
                 cl_sent, cl_report, cl_interrupted>>
  /\ UNCHANGED <<mode, srvVars, stats, hVars, ghostVars>>

\* line 246
run_client_for ==
  /\ mode = "client"
  /\ cl_pc = "for"
  /\ cl_pc' = IF cl_i < cl_count THEN "send" ELSE "report"
  /\ UNCHANGED <<client_socket, cl_latencies, cl_i, cl_count, cl_pings, cl_sleeps,
                 cl_answered, cl_last, cl_sent, cl_report, cl_interrupted>>
  /\ UNCHANGED <<mode, srvVars, stats, hVars, ghostVars>>

\* lines 177-189, 201-203
send_ping_send ==
  /\ mode = "client"
  /\ cl_pc = "send"
  /\ cl_pings' = cl_pings + 1
  /\ IF client_socket = "none"
       THEN cl_last' = "None" /\ cl_pc' = "after_ping" /\ UNCHANGED cl_sent
       ELSE \/ cl_sent' = cl_sent + 1 /\ cl_pc' = "recv" /\ UNCHANGED cl_last
            \/ cl_last' = "None" /\ cl_pc' = "after_ping" /\ UNCHANGED cl_sent
  /\ UNCHANGED <<client_socket, cl_latencies, cl_i, cl_count, cl_sleeps,
                 cl_answered, cl_report, cl_interrupted>>
  /\ UNCHANGED <<mode, srvVars, stats, hVars, ghostVars>>

\* lines 195-199 on the response r; rtt is (end_time - start_time) * 1000
send_ping_response(r, rtt) ==
  IF r.kind = "empty"
    THEN cl_last' = "None" /\ UNCHANGED cl_latencies
  ELSE IF r.kind = "garbage"
    THEN cl_last' = "None" /\ UNCHANGED cl_latencies
  ELSE LET lat == IF r.kind = "pong" THEN r.latency ELSE rtt IN
       /\ cl_latencies' = Append(cl_latencies, lat)
       /\ cl_last' = "latency"

\* lines 192-203.  recv(1024) raises, returns a response, or, when the peer
\* keeps the connection open and sends nothing, does not return: connect
\* (lines 164-173) sets no timeout on the socket, so "recv_blocked" has no
\* way out but KeyboardInterrupt
send_ping_recv ==
  /\ mode = "client"
  /\ cl_pc = "recv"
  /\ \/ /\ cl_last' = "None"
        /\ cl_pc' = "after_ping"
        /\ UNCHANGED <<cl_latencies, cl_answered>>
     \/ \E r \in Responses, rtt \in {0, MsPerSecond} :
          /\ send_ping_response(r, rtt)
          /\ cl_pc' = "after_ping"
          /\ cl_answered' = IF r.kind \in {"pong", "no_latency"}
                              THEN cl_answered + 1 ELSE cl_answered
     \/ /\ cl_pc' = "recv_blocked"
        /\ UNCHANGED <<cl_latencies, cl_answered, cl_last>>
  /\ UNCHANGED <<client_socket, cl_i, cl_count, cl_pings, cl_sleeps, cl_sent,
                 cl_report, cl_interrupted>>
  /\ UNCHANGED <<mode, srvVars, stats, hVars, ghostVars>>

\* run_client_after_ping with a `break` on a round that measured nothing
run_client_after_ping_breaks ==
  /\ mode = "client"
  /\ cl_pc = "after_ping"
  /\ IF cl_last = "None"
       THEN cl_pc' = "report" /\ UNCHANGED <<cl_sleeps, cl_i>>
       ELSE /\ cl_sleeps' = IF cl_i < cl_count - 1 THEN cl_sleeps + 1
                                                   ELSE cl_sleeps
            /\ cl_i' = cl_i + 1
            /\ cl_pc' = "for"
  /\ UNCHANGED <<client_socket, cl_latencies, cl_count, cl_pings, cl_answered,
                 cl_last, cl_sent, cl_report, cl_interrupted>>
  /\ UNCHANGED <<mode, srvVars, stats, hVars, ghostVars>>

\* run_client_after_ping that sleeps after the last ping too
run_client_after_ping_always_sleeps ==
  /\ mode = "client"
  /\ cl_pc = "after_ping"
  /\ cl_sleeps' = cl_sleeps + 1
  /\ cl_i' = cl_i + 1
  /\ cl_pc' = "for"
  /\ UNCHANGED <<client_socket, cl_latencies, cl_count, cl_pings, cl_answered,
                 cl_last, cl_sent, cl_report, cl_interrupted>>
  /\ UNCHANGED <<mode, srvVars, stats, hVars, ghostVars>>

\* lines 248-254
run_client_after_ping ==
  /\ mode = "client"
  /\ cl_pc = "after_ping"
  /\ cl_sleeps' = IF cl_i < cl_count - 1 THEN cl_sleeps + 1 ELSE cl_sleeps
  /\ cl_i' = cl_i + 1
  /\ cl_pc' = "for"
  /\ UNCHANGED <<client_socket, cl_latencies, cl_count, cl_pings, cl_answered, cl_last,
                 cl_sent, cl_report, cl_interrupted>>
  /\ UNCHANGED <<mode, srvVars, stats, hVars, ghostVars>>

\* lines 256-267
run_client_report ==
  /\ mode = "client"
  /\ cl_pc = "report"
  /\ cl_report' = client_get_stats(cl_latencies)
  /\ cl_pc' = "finally"
  /\ UNCHANGED <<client_socket, cl_latencies, cl_i, cl_count, cl_pings, cl_sleeps,
                 cl_answered, cl_last, cl_sent, cl_interrupted>>
  /\ UNCHANGED <<mode, srvVars, stats, hVars, ghostVars>>

\* lines 269-270: KeyboardInterrupt anywhere inside the try block
run_client_interrupted ==
  /\ mode = "client"
  /\ cl_pc \in {"for", "send", "recv", "recv_blocked", "after_ping", "report"}
  /\ cl_interrupted' = TRUE
  /\ cl_pc' = "finally"
  /\ UNCHANGED <<client_socket, cl_latencies, cl_i, cl_count, cl_pings, cl_sleeps,
                 cl_answered, cl_last, cl_sent, cl_report>>
  /\ UNCHANGED <<mode, srvVars, stats, hVars, ghostVars>>

\* lines 271-272, 219-223
run_client_finally ==
  /\ mode = "client"
  /\ cl_pc = "finally"
  /\ client_socket' = IF client_socket = "none" THEN "none" ELSE "closed"
  /\ cl_pc' = "done"
  /\ UNCHANGED <<cl_latencies, cl_i, cl_count, cl_pings, cl_sleeps, cl_answered, cl_last,
                 cl_sent, cl_report, cl_interrupted>>
  /\ UNCHANGED <<mode, srvVars, stats, hVars, ghostVars>>

ClientNext ==
  \/ connect
  \/ run_client_for
  \/ send_ping_send
  \/ send_ping_recv
  \/ run_client_after_ping
  \/ run_client_report
  \/ run_client_interrupted
  \/ run_client_finally

Next == ServerNext \/ ClientNext

Spec == Init /\ [][Next]_vars

\* run_client alone (lines 234-272 from main, lines 282-283): every step of
\* the program is taken if it stays possible; KeyboardInterrupt is the
\* user's and is never forced
ClientInit == Init /\ mode = "client"

ClientFairness ==
  /\ WF_vars(connect)
  /\ WF_vars(run_client_for)
  /\ WF_vars(send_ping_send)
  /\ WF_vars(send_ping_recv)
  /\ WF_vars(run_client_after_ping)
  /\ WF_vars(run_client_report)
  /\ WF_vars(run_client_finally)

SpecClient == ClientInit /\ [][ClientNext]_vars /\ ClientFairness

\* run_server with a single connection ever accepted: one handler thread,
\* so the calls of update_stats (line 94) run one at a time
ServerInit == Init /\ mode = "server"

OneHandlerNext ==
  \/ start_bind
  \/ start_while
  \/ nAccepted = 0 /\ start_accept
  \/ start_accept_raises
  \/ start_except_accept
  \/ start_interrupted
  \/ start_finally
  \/ run_server_except
  \/ stop_flag
  \/ stop_close
  \/ \E h \in Conns : handle_client_while(h)
  \/ \E h \in Conns : handle_client_recv(h)
  \/ \E h \in Conns : handle_client_decode(h)
  \/ \E h \in Conns : update_stats(h)
  \/ \E h \in Conns : get_stats(h)
  \/ \E h \in Conns : handle_client_send(h)

SpecOneHandler == ServerInit /\ [][OneHandlerNext]_vars

\* ======================================================================
\* Properties
\* ======================================================================
UpdateStatsPcs ==
  {"us_requests_read", "us_requests_write", "us_total_read", "us_total_write",
   "us_append", "us_min_test", "us_min_write", "us_max_test", "us_max_write"}

BeforeAppendPcs ==
  {"us_requests_read", "us_requests_write", "us_total_read", "us_total_write",
   "us_append"}

AfterAppendPcs ==
  {"us_min_test", "us_min_write", "us_max_test", "us_max_write", "send_pong"}

\* every update_stats call made has returned
AllRecordsCompleted == \A h \in Conns : hpc[h] \notin UpdateStatsPcs

IsPrefix(s, t) == Len(s) <= Len(t) /\ \A i \in 1..Len(s) : s[i] = t[i]

\* C1: once all concurrent update_stats calls have completed, total_requests
\* equals the number of calls made and equals len(latencies).
C1_NoLostUpdates ==
  AllRecordsCompleted =>
    /\ stats.total_requests = recordCalls
    /\ stats.total_requests = Len(stats.latencies)

\* the statistics get_stats would return for the sample list l
DerivedOf(l) ==
  IF l # <<>>
    THEN [avg |-> Mean(l), median |-> Median(l),
          std_squared |-> IF Len(l) > 1 THEN StdevSquared(l) ELSE Zero]
    ELSE [avg |-> Zero, median |-> Zero, std_squared |-> Zero]

\* C2: the snapshot get_stats returns is a consistent point-in-time copy: its
\* total_requests is the length of its latencies list, its total_latency the
\* sum of that list, and avg/median/std are those of exactly that list.
C2_SnapshotConsistent ==
  \A h \in Conns :
    hpc[h] = "send_stats" =>
      /\ snap[h].total_requests = Len(stats.latencies)
      /\ snap[h].total_latency = SumSeq(stats.latencies)
      /\ FracEq(snap[h].avg_latency, DerivedOf(stats.latencies).avg)
      /\ FracEq(snap[h].median_latency, DerivedOf(stats.latencies).median)
      /\ FracEq(snap[h].std_squared, DerivedOf(stats.latencies).std_squared)

\* C3: with at least one sample recorded and all update_stats calls
\* completed, min_latency <= every recorded sample <= max_latency.
C3_MinMaxBoundSamples ==
  (AllRecordsCompleted /\ stats.latencies # <<>>) =>
    \A i \in 1..Len(stats.latencies) :
      /\ stats.min_latency <= stats.latencies[i]
      /\ stats.latencies[i] <= stats.max_latency

\* bytes that are not a decodable request: not UTF-8, not JSON, or JSON that
\* is not an object
Malformed(p) == ~p.utf8 \/ ~p.json \/ ~p.isobj

\* C4: a malformed payload never closes the connection: the handler drops
\* the exchange and returns to the loop with the connection open.
C4_MalformedKeepsConnection ==
  [][\A h \in Conns :
       (hpc[h] = "decode" /\ Malformed(data[h])) => hpc'[h] \in {"decode", "while"}]_vars

\* C5 as stated: no handler ever reaches Closed because stop() was called.
C5_StopNeverClosesHandler ==
  \A h \in Conns : closeCause[h] # "stopped"

\* C5, amended: stop() itself closes no connection and interrupts no
\* exchange; a handler ends because of stop() only at its loop test, with
\* running false, and at that test it never goes on to read another request.
C5_StopEndsHandlerAtLoopTest ==
  [][/\ (running /\ ~running') => (hpc' = hpc /\ closeCause' = closeCause)
     /\ \A h \in Conns :
          /\ (closeCause[h] # "stopped" /\ closeCause'[h] = "stopped")
               => (hpc[h] = "while" /\ ~running)
          /\ (hpc[h] = "while" /\ ~running) => hpc'[h] \in {"while", "closed"}]_vars

C5_Witness ==
  \E h \in Conns : closeCause[h] = "stopped" /\ Len(resps[h]) > 0

\* C6 as stated: after a bind failure the caller of start sees something
\* other than the normal return (None).
C6_BindFailureDistinguishable ==
  (bindFailed /\ srv_pc = "done") => startReturn # "None"

\* C6, amended: a bind failure is fatal - the accept loop is never entered
\* and no connection is accepted - but it is caught inside start: it is
\* logged, stop() runs, and start returns None as after a normal stop.
C6_BindFailureLoggedAndReturned ==
  bindFailed =>
    /\ nAccepted = 0
    /\ nAcceptErr = 0
    /\ srv_pc \in {"finally", "done"}
    /\ ~running
    /\ startFailedLogged
    /\ srv_pc = "done" => (startReturn = "None" /\ server_socket # "open")

C6_Witness == bindFailed /\ srv_pc = "done" /\ server_socket = "closed"

\* C7: an accept error raised while running is true is logged and the loop
\* goes back to its test, which accepts again while running is true; an
\* accept error seen with running false is not logged and the loop ends at
\* its test.
C7_AcceptErrorsNotFatal ==
  [][/\ (srv_pc = "accept" /\ nAcceptErr' # nAcceptErr) => srv_pc' = "except_accept"
     /\ (srv_pc = "except_accept" /\ srv_pc' # "except_accept"
           /\ startReturn' # "KeyboardInterrupt")
          => /\ srv_pc' = "while"
             /\ nAcceptLogged' = IF running THEN nAcceptLogged + 1 ELSE nAcceptLogged
     /\ (srv_pc = "while" /\ srv_pc' # "while" /\ startReturn' # "KeyboardInterrupt")
          => srv_pc' = IF running THEN "accept" ELSE "finally"]_vars

C7_Witness ==
  /\ nAcceptLogged = 1
  /\ nAcceptErr = 2
  /\ nAccepted > 0
  /\ srv_pc = "done"
  /\ startReturn = "None"

\* C8 as stated: the k-th response on a connection answers the k-th request
\* read on it.
C8_KthResponseAnswersKthRequest ==
  \A h \in Conns : \A k \in 1..Len(resps[h]) : resps[h][k] = k

\* C8, amended: the handler never reads a further request before it has
\* written the response to the previous ping or stats request, writes at
\* most one response per request read, and the k-th response answers the
\* k-th ping or stats request (malformed payloads and requests of another
\* type get no response).
C8_ResponsesFollowRequests ==
  \A h \in Conns :
    /\ Len(resps[h]) <= nReads[h]
    /\ IsPrefix(resps[h], answerable[h])
    /\ \A i, j \in 1..Len(resps[h]) : i < j => resps[h][i] < resps[h][j]
    /\ hpc[h] \in {"while", "recv", "decode"} => resps[h] = answerable[h]

C8_Witness ==
  \E h \in Conns : Len(resps[h]) = 1 /\ resps[h][1] = 2

\* C9: a failure inside one handler closes only that handler's connection;
\* every other handler and the accept loop are left as they were.
C9_ErrorsContained ==
  [][\A h \in Conns :
       (closeCause[h] = "none" /\ closeCause'[h] = "error") =>
         /\ hpc'[h] = "closed"
         /\ \A g \in Conns \ {h} :
              /\ hpc'[g] = hpc[g]
              /\ closeCause'[g] = closeCause[g]
              /\ resps'[g] = resps[g]
         /\ UNCHANGED <<running, server_socket, srv_pc, nAccepted>>]_vars

C9_Witness ==
  \E h, g \in Conns :
    /\ closeCause[h] = "error"
    /\ hpc[g] = "while"
    /\ Len(resps[g]) > 0
    /\ running
    /\ srv_pc = "accept"

\* no handler is between recording a sample and writing its pong
NoPingInFlight == \A h \in Conns : hpc[h] \notin (UpdateStatsPcs \cup {"send_pong"})

\* C10 as stated: total_requests is at most the number of pongs
\* successfully written.
C10_SamplesOnlyOfWrittenPongs ==
  NoPingInFlight => stats.total_requests <= pongsWritten

\* C10, amended: the aggregator is mutated only by the processing of a
\* decoded ping, before its pong is written: the samples are those of the
\* pings whose pong was written, whose pong write failed, or whose pong is
\* not written yet; malformed, stats and other requests contribute none;
\* the client's list holds one entry per round whose response arrived and
\* decoded.
C10_SamplesOnlyOfProcessedPings ==
  /\ stats.total_requests <= recordCalls
  /\ recordCalls <= pingsRead
  /\ recordCalls = Len(stats.latencies)
                     + Cardinality({h \in Conns : hpc[h] \in BeforeAppendPcs})
  /\ Len(stats.latencies) = pongsWritten + pongWriteFails
                     + Cardinality({h \in Conns : hpc[h] \in AfterAppendPcs})
  /\ Len(cl_latencies) = cl_answered

C10_Witness ==
  /\ NoPingInFlight
  /\ pongWriteFails > 0
  /\ stats.total_requests > pongsWritten

\* ----------------------------------------------------------------------
\* C11: a round of send_ping that fails to send, receives nothing or cannot
\* decode what it received returns None, appends no sample and leaves the
\* client socket open, and run_client goes on to the next round: the loop
\* is left for the report only after count calls of send_ping.
LoopPcs == {"for", "send", "recv", "recv_blocked", "after_ping"}

C11_FailedRoundStep ==
  /\ (cl_pc \in {"send", "recv"} /\ cl_pc' = "after_ping"
        /\ cl_answered' = cl_answered)
       => /\ cl_last' = "None"
          /\ cl_latencies' = cl_latencies
          /\ client_socket' = client_socket
  /\ (cl_pc = "after_ping" /\ cl_pc' \notin {"after_ping", "finally"})
       => cl_pc' = "for" /\ cl_i' = cl_i + 1
  /\ (cl_pc = "for" /\ cl_i < cl_count /\ cl_pc' \notin {"for", "finally"})
       => cl_pc' = "send"

C11_FailedRoundNotFatal ==
  /\ [](cl_pc \in LoopPcs => client_socket = "open")
  /\ [](cl_pc = "report" => cl_pings = cl_count /\ client_socket = "open")
  /\ [][C11_FailedRoundStep]_vars

\* a run whose first rounds measured nothing and whose last round measured
C11_Witness ==
  /\ cl_pc = "report"
  /\ cl_count = MaxCount
  /\ cl_pings = MaxCount
  /\ cl_sent < cl_pings
  /\ cl_answered < cl_sent
  /\ Len(cl_latencies) = 1
  /\ cl_last = "latency"
  /\ client_socket = "open"

\* ----------------------------------------------------------------------
\* C12: every round ends, by a response or by a timeout, so a client run
\* that connected always eventually terminates with its socket closed,
\* even when the peer keeps the connection open and never answers.
C12_EveryRunTerminates ==
  (cl_pc = "for") ~> (cl_pc = "done" /\ client_socket = "closed")

\* ----------------------------------------------------------------------
\* C13: a client run interrupted in its ping loop or in a sleep ends with
\* the socket closed and with the statistics of the samples recorded
\* before the interruption reported.
C13_InterruptedRunReports ==
  (cl_pc = "done" /\ cl_interrupted)
    => /\ client_socket = "closed"
       /\ cl_latencies # <<>> => cl_report = client_get_stats(cl_latencies)

\* ----------------------------------------------------------------------
\* C14: when connect() fails, run_client returns at once: send_ping is
\* never called, nothing is sent and no sample is recorded.
C14_NoPingWithoutConnection ==
  (cl_pc # "connect" /\ client_socket \in {"none", "unconnected"})
    => /\ cl_pc = "done"
       /\ cl_pings = 0
       /\ cl_sent = 0
       /\ cl_latencies = <<>>
       /\ cl_report = Unset

C14_Witness ==
  /\ cl_pc = "done"
  /\ client_socket = "unconnected"
  /\ cl_count = MaxCount

\* ----------------------------------------------------------------------
\* C15 (as claimed): a snapshot of an aggregator that holds no sample is a
\* statistics record with count 0 and mean = median = stdDev = 0, on the
\* server (TCPServer.get_stats) and on the client (TCPClient.get_stats).
ServerSnapshotOfEmpty(h) ==
  /\ snap[h].total_requests = 0
  /\ snap[h].avg_latency = Zero
  /\ snap[h].median_latency = Zero
  /\ snap[h].std_squared = Zero

C15_EmptySnapshotIsZeroRecord ==
  /\ \A h \in Conns :
       (hpc[h] = "send_stats" /\ recordCalls = 0) => ServerSnapshotOfEmpty(h)
  /\ (cl_pc = "finally" /\ ~cl_interrupted /\ cl_latencies = <<>>)
       => /\ cl_report # None
          /\ cl_report.count = 0
          /\ cl_report.avg = Zero
          /\ cl_report.median = Zero
          /\ cl_report.std_squared = Zero

\* C15 (amended): neither snapshot raises on an empty aggregator.  The
\* server's get_stats, run before any update_stats call, returns a record
\* with total_requests = 0, avg = median = std = 0 (and min_latency still
\* infinite); the client's get_stats returns None, and run_client then
\* prints no statistics.
C15_EmptySnapshot ==
  /\ \A h \in Conns :
       (hpc[h] = "send_stats" /\ recordCalls = 0)
         => /\ ServerSnapshotOfEmpty(h)
            /\ snap[h].total_latency = 0
            /\ snap[h].min_latency = Inf
            /\ snap[h].max_latency = 0
  /\ (cl_pc = "finally" /\ ~cl_interrupted /\ cl_latencies = <<>>)
       => cl_report = None

C15_Witness ==
  \E h \in Conns :
    /\ hpc[h] = "send_stats"
    /\ recordCalls = 0
    /\ stats.latencies = <<>>
    /\ snap[h].min_latency = Inf

\* ----------------------------------------------------------------------
\* C16 (as claimed): an uninterrupted run of count >= 1 pings that
\* connected calls send_ping count times, sleeps count - 1 times, ends
\* with the socket closed, and its final snapshot reports a count equal to
\* the number of rounds that produced a measurement.
UninterruptedRunEnded ==
  cl_pc = "done" /\ ~cl_interrupted /\ client_socket = "closed"

C16_FinalCountIsMeasuredRounds ==
  (UninterruptedRunEnded /\ cl_count >= 1)
    => /\ cl_pings = cl_count
       /\ cl_sleeps = cl_count - 1
       /\ cl_report # None
       /\ cl_report.count = cl_answered

\* C16 (amended): pings are issued one at a time, with one sleep after
\* every round but the last; an uninterrupted run that connected ends
\* closed after count calls of send_ping and max(count - 1, 0) sleeps; its
\* final snapshot reports the number of measured rounds when there is at
\* least one, and is None (nothing reported) when there is none.
SleepsDue == IF cl_count = 0 THEN 0 ELSE cl_count - 1

C16_UninterruptedRun ==
  /\ cl_pc \in {"for", "send"}
       => cl_pings = cl_i /\ cl_sleeps = (IF cl_i < SleepsDue THEN cl_i ELSE SleepsDue)
  /\ cl_pc \in {"recv", "recv_blocked", "after_ping"}
       => cl_pings = cl_i + 1 /\ cl_sleeps = cl_i /\ cl_i < cl_count
  /\ UninterruptedRunEnded
       => /\ cl_pings = cl_count
          /\ cl_sleeps = SleepsDue
          /\ Len(cl_latencies) = cl_answered
          /\ IF cl_answered = 0 THEN cl_report = None
                                ELSE cl_report.count = cl_answered

\* the run of the claim: three pings, all answered
C16_Witness ==
  /\ UninterruptedRunEnded
  /\ cl_count = 3
  /\ cl_pings = 3
  /\ cl_sleeps = 2
  /\ cl_answered = 3
  /\ cl_report.count = 3

\* ----------------------------------------------------------------------
\* C17: get_stats, called directly or for a 'stats' request, only reads
\* the aggregator: no step of it changes total_requests, total_latency,
\* min_latency, max_latency or latencies; and snapshots with no write of
\* update_stats in between are identical, each being the snapshot of the
\* aggregator as it stands.
GetStatsPcs == {"gs_copy"} \cup GsAfterCopy

SnapshotOf(st) ==
  [stats_copy(st) EXCEPT
     !.avg_latency = IF st.latencies # <<>> THEN Mean(st.latencies) ELSE Zero,
     !.median_latency = IF st.latencies # <<>> THEN Median(st.latencies) ELSE Zero,
     !.std_squared = IF Len(st.latencies) > 1 THEN StdevSquared(st.latencies)
                                               ELSE Zero]

C17_GetStatsStep ==
  \A h \in Conns :
    (hpc[h] \in GetStatsPcs /\ hpc'[h] # hpc[h]) => stats' = stats

C17_SnapshotReadOnly ==
  /\ [][C17_GetStatsStep]_vars
  /\ [](\A h \in Conns :
         (hpc[h] = "send_stats" /\ ~gsDirty[h]) => snap[h] = SnapshotOf(stats))
  /\ [](\A h, g \in Conns :
         (hpc[h] = "send_stats" /\ hpc[g] = "send_stats"
            /\ ~gsDirty[h] /\ ~gsDirty[g]) => snap[h] = snap[g])

\* two snapshots of an aggregator that holds a sample, nothing written
\* between them
C17_Witness ==
  \E h \in Conns :
    /\ hpc[h] = "send_stats"
    /\ ~gsDirty[h]
    /\ stats.total_requests = 1
    /\ stats.latencies # <<>>
    /\ snap[h].total_requests = 1

\* ----------------------------------------------------------------------
\* C18: a request that decodes to an object with no 'type' is handled
\* exactly as the same request with type 'ping': update_stats is called
\* once for it and one pong is sent; a ping with no 'timestamp' is handled
\* too, with the time of its receipt as timestamp, so that its latency is
\* the (non-negative) time from receipt to line 90.
DecodedObject(p) == p.utf8 /\ p.json /\ p.isobj

ReceiptLatencies == {(now - t0) * MsPerSecond : t0 \in Clock, now \in Clock} \cap Nat

C18_DecodeStep ==
  \A h \in Conns :
    (hpc[h] = "decode" /\ hpc'[h] # "decode" /\ DecodedObject(data[h]))
      => /\ (data[h].type = "absent" /\ data[h].tsKind # "str")
              => /\ hpc'[h] = "us_requests_read"
                 /\ recordCalls' = recordCalls + 1
                 /\ answerable'[h] = Append(answerable[h], nReads[h])
                 /\ \E t0 \in Clock, now \in Clock :
                      /\ t0 <= now
                      /\ handle_request(h, [data[h] EXCEPT !.type = "ping"], t0, now)
         /\ (data[h].tsKind = "absent" /\ data[h].type \in {"ping", "absent"})
              => /\ hpc'[h] = "us_requests_read"
                 /\ recordCalls' = recordCalls + 1
                 /\ latency'[h] \in ReceiptLatencies

\* the ping path: update_stats runs to the send of the pong, which is
\* written once or fails and closes the connection
C18_PingPathStep ==
  \A h \in Conns :
    /\ (hpc[h] \in UpdateStatsPcs /\ hpc'[h] # hpc[h])
         => hpc'[h] \in UpdateStatsPcs \cup {"send_pong"}
    /\ (hpc[h] = "us_append" /\ hpc'[h] # hpc[h])
         => stats'.latencies = Append(stats.latencies, latency[h])
    /\ (hpc[h] = "send_pong" /\ hpc'[h] # hpc[h])
         => \/ /\ hpc'[h] = "while"
               /\ resps'[h] = Append(resps[h], nReads[h])
               /\ pongsWritten' = pongsWritten + 1
            \/ hpc'[h] = "closed" /\ closeCause'[h] = "error"

C18_PermissiveDecode ==
  [][C18_DecodeStep /\ C18_PingPathStep]_vars

\* one handler is recording the sample of a request with no type, another
\* that of a ping with no timestamp
C18_Witness ==
  \E h, g \in Conns :
    /\ hpc[h] = "us_requests_read"
    /\ data[h].type = "absent"
    /\ hpc[g] = "us_requests_read"
    /\ data[g].tsKind = "absent"
    /\ latency[g] = MsPerSecond
    /\ recordCalls = 2

\* ----------------------------------------------------------------------
\* C19: a handler ends only by closing its connection, and closes it once:
\* a zero-byte read ends it as a disconnection of the peer, not as an
\* error; a failed read, a failed write or an exception in processing
\* ends it as an error; a cleared running flag ends it at the loop test.
\* A closed handler takes no further step: it reads nothing and writes
\* nothing more.
C19_CloseStep ==
  \A h \in Conns :
    /\ hpc[h] = "closed"
         => /\ hpc'[h] = "closed"
            /\ closeCause'[h] = closeCause[h]
            /\ nReads'[h] = nReads[h]
            /\ resps'[h] = resps[h]
    /\ (hpc[h] # "closed" /\ hpc'[h] = "closed")
         => /\ closeCause[h] = "none"
            /\ nReads'[h] = nReads[h]
            /\ resps'[h] = resps[h]
            /\ \/ hpc[h] = "recv" /\ closeCause'[h] \in {"peer", "error"}
               \/ hpc[h] = "while" /\ ~running /\ closeCause'[h] = "stopped"
               \/ /\ hpc[h] \in {"decode", "send_pong", "send_stats"}
                  /\ closeCause'[h] = "error"

C19_HandlerReleasesConnection ==
  /\ [](\A h \in Conns : hpc[h] = "closed" <=> closeCause[h] # "none")
  /\ [][C19_CloseStep]_vars

\* one connection ended by its peer, the other by a failed write
C19_Witness ==
  \E h, g \in Conns :
    /\ hpc[h] = "closed" /\ closeCause[h] = "peer"
    /\ hpc[g] = "closed" /\ closeCause[g] = "error"
    /\ pongWriteFails = 1
    /\ running

\* ----------------------------------------------------------------------
\* C20 (as claimed): every request that decodes to an object is answered
\* with one response before the handler reads again, whatever its type:
\* the handler never goes from decoding such a request straight back to
\* its loop test.
C20_DecodedNeverDropped ==
  [][\A h \in Conns :
       (hpc[h] = "decode" /\ DecodedObject(data[h])) => hpc'[h] # "while"]_vars

\* C20 (amended): a decoded request of type 'ping' (or of no type) or
\* 'stats' is processed and then answered with exactly one response
\* before the handler reads again, unless processing or the write raises,
\* which closes the connection; a decoded request of any other type is
\* dropped: nothing is written, the connection stays open and the handler
\* reads again.
C20_AnswerStep ==
  \A h \in Conns :
    /\ (hpc[h] = "decode" /\ hpc'[h] # "decode" /\ DecodedObject(data[h]))
         => IF data[h].type \in {"ping", "absent"}
              THEN hpc'[h] = (IF data[h].tsKind = "str" THEN "closed"
                                                        ELSE "us_requests_read")
            ELSE IF data[h].type = "stats"
              THEN hpc'[h] = "gs_copy"
            ELSE /\ hpc'[h] = "while"
                 /\ resps'[h] = resps[h]
                 /\ closeCause'[h] = "none"
    /\ (hpc[h] \in UpdateStatsPcs \cup GetStatsPcs \cup {"send_pong"}
          /\ hpc'[h] = "while")
         => /\ hpc[h] \in {"send_pong", "send_stats"}
            /\ resps'[h] = Append(resps[h], nReads[h])
    /\ hpc[h] \in UpdateStatsPcs \cup (GetStatsPcs \ {"send_stats"})
         => resps'[h] = resps[h]

C20_OnlyPingAndStatsAnswered ==
  /\ [][C20_AnswerStep]_vars
  /\ [](\A h \in Conns :
         hpc[h] \in {"while", "recv", "decode"} => resps[h] = answerable[h])

\* a request of another type was read and dropped: the handler is back at
\* its loop test with the connection open and nothing written
C20_Witness ==
  \E h \in Conns :
    /\ hpc[h] = "while"
    /\ DecodedObject(data[h])
    /\ data[h].type = "other"
    /\ nReads[h] = 1
    /\ resps[h] = <<>>
    /\ closeCause[h] = "none"

\* ----------------------------------------------------------------------
\* C21: with update_stats calls run one at a time, after any non-empty
\* sequence L of latencies was recorded, negative ones included,
\* min_latency = min(L) and max_latency = max(L).
C21_MinMaxOfRecorded ==
  (AllRecordsCompleted /\ stats.latencies # <<>>)
    => /\ stats.min_latency = KthSmallest(stats.latencies, 1)
       /\ stats.max_latency = KthSmallest(stats.latencies, Len(stats.latencies))
====
